---- MODULE Spec2Model ----
(***************************************************************************)
(* Model of the Twelve Labs components of langflow:                        *)
(*   pegasus_index.py  PegasusIndexVideo  (index resolution, upload,       *)
(*                     bounded-parallel status polling, result merging)    *)
(*   split_video.py    SplitVideoComponent.process_video (segmentation)    *)
(*                                                                         *)
(* Seven specifications share the variables below; each one starts the     *)
(* part of the program it is about and leaves the other parts idle:        *)
(*   SpecWait     one call of _wait_for_task_completion, one status-check  *)
(*                iteration per step, against an arbitrary remote service  *)
(*   SpecSplit    one call of process_video, one clip per step             *)
(*   SpecResolve  two calls of _get_or_create_index in sequence            *)
(*   Spec         one call of index_videos                                 *)
(*   SpecPool     the polling stage of index_videos with up to MaxPoolJobs *)
(*                uploaded tasks                                           *)
(*   SpecJobs     the polling stage of index_videos with two uploaded      *)
(*                tasks, every answer script for each and every            *)
(*                interleaving of the two calls                            *)
(*   SpecLive     the polling stage of index_videos with one uploaded      *)
(*                task, one status-check iteration per step, under weak    *)
(*                fairness                                                 *)
(***************************************************************************)
EXTENDS Integers, Sequences, FiniteSets, TLC

VARIABLES
    job,        \* _wait_for_task_completion: locals and outcome of the call
    seen,       \* what the remote service has answered to this call so far
    split,      \* process_video: arguments, locals and outcome of the call
    self,       \* PegasusIndexVideo inputs: videodata, api_key, index_name, index_id
    indexes,    \* the remote service's indexes, in the order index.list() yields them
    resolutions, \* one entry per call of _get_or_create_index so far
    run,        \* index_videos: locals of the calling thread and its outcome
    futures,    \* the executor's futures, in submission order
    uploads,    \* the uploads the remote service has been asked for, in order
    status      \* self.status: the kind of the last message and the item it names

waitVars == <<job, seen>>
splitVars == <<split>>
indexVars == <<self, indexes, resolutions>>
runVars == <<run, futures, uploads>>

(***************************************************************************)
(* Program constants                                                        *)
(***************************************************************************)
max_retries == 120
max_consecutive_errors == 5
stop_after_attempt == 5

(***************************************************************************)
(* The remote service, as seen by one polling call                          *)
(***************************************************************************)
NonTerminalStatus == {"queued", "indexing"}
TaskStatus == NonTerminalStatus \cup {"ready", "failed", "error"}

TaskIds == {1, 2}

\* The remote object id the service attaches to a task.
VideoIdOf(task_id) == 100 + task_id

NoTask == [status |-> "none", video_id |-> 0]

\* client.task.retrieve(id=task_id) when the call succeeds with status st.
RetrieveTask(task_id, st) ==
    [status |-> st,
     video_id |-> IF st = "ready" THEN VideoIdOf(task_id) ELSE 0]

(***************************************************************************)
(* _check_task_status under @retry(stop_after_attempt(5), reraise=True):   *)
(* nfail is the number of remote calls that raise before one succeeds.     *)
(* The first successful call's task is returned whatever its status; when  *)
(* 5 calls have raised the last exception is re-raised.                    *)
(***************************************************************************)
CheckTaskStatus(task_id, nfail, st) ==
    IF nfail >= stop_after_attempt
    THEN [ok |-> FALSE, task |-> NoTask, calls |-> stop_after_attempt]
    ELSE [ok |-> TRUE, task |-> RetrieveTask(task_id, st), calls |-> nfail + 1]

(***************************************************************************)
(* _wait_for_task_completion                                                *)
(*   job.state = "POLLING"    inside the while loop                         *)
(*               "READY"      returned the task                             *)
(*               "TIMED_OUT"  raised TimeoutError after the loop            *)
(*               "ABORTED"    raised "Too many consecutive errors ..."      *)
(*               "FAILED" / "ERROR"  raised "Task failed ..." /             *)
(*                            "Task encountered an error ..." to the caller *)
(***************************************************************************)
TerminalStates == {"READY", "FAILED", "ERROR", "TIMED_OUT", "ABORTED"}

NewJob(task_id) ==
    [task_id |-> task_id,
     retries |-> 0,
     consecutive_errors |-> 0,
     state |-> IF 0 < max_retries THEN "POLLING" ELSE "TIMED_OUT",
     task |-> NoTask,
     error_msg |-> "none",
     raised |-> IF 0 < max_retries THEN "none" ELSE "Timeout"]

\* Mutant of ExceptHandler: the handler records the error and goes on, without
\* the test on consecutive_errors.
ExceptHandler_NeverAborts(j, cause) ==
    [j EXCEPT !.consecutive_errors = j.consecutive_errors + 1,
              !.error_msg = cause]

\* Mutant of ExceptHandler: the abort test written > instead of >=.
ExceptHandler_OffByOne(j, cause) ==
    LET n == j.consecutive_errors + 1 IN
    IF n > max_consecutive_errors
    THEN [j EXCEPT !.consecutive_errors = n,
                   !.error_msg = cause,
                   !.state = "ABORTED",
                   !.raised = "TooManyConsecutiveErrors"]
    ELSE [j EXCEPT !.consecutive_errors = n,
                   !.error_msg = cause]

\* The except clause of the loop body: every exception raised inside the try
\* block lands here, cause being what str(e) says.
ExceptHandler(j, cause) ==
    LET n == j.consecutive_errors + 1 IN
    IF n >= max_consecutive_errors
    THEN [j EXCEPT !.consecutive_errors = n,
                   !.error_msg = cause,
                   !.state = "ABORTED",
                   !.raised = "TooManyConsecutiveErrors"]
    ELSE [j EXCEPT !.consecutive_errors = n,
                   !.error_msg = cause]

\* raise Exception(error_msg) at lines 150 and 154: the raise statement is
\* inside the try block whose handler is `except Exception`.
RaiseTaskFailure(j, cause) == ExceptHandler(j, cause)

\* Mutant of NextAttempt: the loop test written <= instead of <.
NextAttempt_OneMore(j) ==
    LET r == j.retries + 1 IN
    IF r <= max_retries
    THEN [j EXCEPT !.retries = r]
    ELSE [j EXCEPT !.retries = r, !.state = "TIMED_OUT", !.raised = "Timeout"]

\* The tail of the try block after a non-terminal status, and the loop test.
NextAttempt(j) ==
    LET r == j.retries + 1 IN
    IF r < max_retries
    THEN [j EXCEPT !.retries = r]
    ELSE [j EXCEPT !.retries = r, !.state = "TIMED_OUT", !.raised = "Timeout"]

\* Mutant of WaitIteration: the status is inspected only after the sleep and
\* the increment of the attempt counter.
WaitIteration_TestAfterSleep(j, r) ==
    IF ~r.ok
    THEN ExceptHandler(j, "call_failed")
    ELSE LET j1 == [j EXCEPT !.task = r.task] IN
         IF r.task.status = "ready"
         THEN [j1 EXCEPT !.state = "READY", !.retries = j.retries + 1]
         ELSE IF r.task.status = "failed"
         THEN RaiseTaskFailure(j1, "task_failed")
         ELSE IF r.task.status = "error"
         THEN RaiseTaskFailure(j1, "task_error")
         ELSE NextAttempt(j1)

\* One iteration of the while loop, given the outcome r of _check_task_status.
WaitIteration(j, r) ==
    IF ~r.ok
    THEN ExceptHandler(j, "call_failed")
    ELSE LET j1 == [j EXCEPT !.task = r.task] IN
         IF r.task.status = "ready"
         THEN [j1 EXCEPT !.state = "READY"]
         ELSE IF r.task.status = "failed"
         THEN RaiseTaskFailure(j1, "task_failed")
         ELSE IF r.task.status = "error"
         THEN RaiseTaskFailure(j1, "task_error")
         ELSE NextAttempt(j1)

(***************************************************************************)
(* What the remote service has done during the call (observation only):    *)
(*   checks     status-check iterations issued                             *)
(*   polls      iterations that obtained a non-terminal status             *)
(*   fail_run   failed iterations (all inner attempts raised) in a row,    *)
(*              counted up to the most recent iteration                    *)
(*   call_fails failed iterations in total                                 *)
(*   bad        iterations that obtained status failed or error            *)
(*   calls      remote calls made by the most recent iteration             *)
(***************************************************************************)
NothingSeen ==
    [checks |-> 0, polls |-> 0, fail_run |-> 0, call_fails |-> 0, bad |-> 0,
     calls |-> 0]

Observe(s, r) ==
    [checks |-> s.checks + 1,
     polls |-> IF r.ok /\ r.task.status \in NonTerminalStatus
               THEN s.polls + 1 ELSE s.polls,
     fail_run |-> IF r.ok THEN 0 ELSE s.fail_run + 1,
     call_fails |-> IF r.ok THEN s.call_fails ELSE s.call_fails + 1,
     bad |-> IF r.ok /\ r.task.status \in {"failed", "error"}
             THEN s.bad + 1 ELSE s.bad,
     calls |-> r.calls]

(***************************************************************************)
(* self.status.  A message is kept as its kind and the item (the place in  *)
(* videodata, or the task in a call on its own) whose path it names, 0     *)
(* when it names none.  The polling loop writes                            *)
(*   "task_progress"   lines 108, 141 and 159                              *)
(*   "task_error"      lines 149, 153 and 164                              *)
(*   "task_completed"  line 145                                            *)
(*   "task_timeout"    line 173                                            *)
(***************************************************************************)
NoStatus == [msg |-> "none", item |-> 0]

WorkerMessages ==
    {"task_progress", "task_error", "task_completed", "task_timeout"}

\* The last message of a call that ended in state.
TerminalMessage(state) ==
    IF state = "READY" THEN "task_completed"
    ELSE IF state = "TIMED_OUT" THEN "task_timeout"
    ELSE "task_error"

\* The last message written by the iteration that got r and left the job j.
LoopStatus(j, r) ==
    [msg |-> IF j.state # "POLLING" THEN TerminalMessage(j.state)
             ELSE IF r.ok /\ r.task.status \in NonTerminalStatus
             THEN "task_progress"
             ELSE "task_error",
     item |-> j.task_id]

\* The parts of the program a specification does not run.
IdleJob == [state |-> "idle"]
IdleSplit == [pc |-> "idle"]
IdleSelf == [videodata |-> <<>>, api_key |-> "", index_name |-> "", index_id |-> 0]
IndexIdle ==
    /\ self = IdleSelf
    /\ indexes = <<>>
    /\ resolutions = <<>>
RunIdle ==
    /\ run = [pc |-> "idle"]
    /\ futures = <<>>
    /\ uploads = <<>>
    /\ status = NoStatus

WaitInit ==
    /\ job \in {NewJob(t) : t \in TaskIds}
    /\ seen = NothingSeen
    /\ split = IdleSplit
    /\ IndexIdle
    /\ RunIdle

\* One status-check iteration: the remote lets nfail calls raise and then
\* answers status st.
WaitCheck(nfail, st) ==
    /\ job.state = "POLLING"
    /\ LET r == CheckTaskStatus(job.task_id, nfail, st)
           j == WaitIteration(job, r)
       IN  /\ job' = j
           /\ seen' = Observe(seen, r)
           /\ status' = LoopStatus(j, r)
    /\ UNCHANGED <<splitVars, indexVars, runVars>>

WaitNext ==
    \E nfail \in 0..stop_after_attempt, st \in TaskStatus : WaitCheck(nfail, st)

vars == <<job, seen, split, self, indexes, resolutions, run, futures, uploads,
          status>>

SpecWait == WaitInit /\ [][WaitNext]_vars

(***************************************************************************)
(* Claims about _wait_for_task_completion (SpecWait)                        *)
(***************************************************************************)

\* C1: the first status check that observes remote status failed (resp.
\* error) moves the job to the terminal state FAILED (resp. ERROR) with the
\* task failure as its reason; no further status check is issued.  Stated on
\* the task most recently obtained: once it says failed/error the call has
\* ended by raising the task failure to its caller.
C1_FailedStatusIsTerminal ==
    /\ job.task.status = "failed" =>
           job.state = "FAILED" /\ job.raised = "TaskFailed"
    /\ job.task.status = "error" =>
           job.state = "ERROR" /\ job.raised = "TaskError"

\* C4: a job whose status checks all succeed with a non-terminal status is
\* TIMED_OUT after exactly max_retries (120) iterations and is still polling
\* before that; the attempt counter counts exactly the iterations that
\* obtained a non-terminal status (failed iterations do not increment it),
\* and a timeout is raised only with 120 such iterations.
C4_TimedOutAfter120Polls ==
    /\ job.retries = seen.polls
    /\ seen.checks = seen.polls =>
           /\ seen.checks < max_retries => job.state = "POLLING"
           /\ seen.checks = max_retries =>
                  job.state = "TIMED_OUT" /\ job.raised = "Timeout"
           /\ seen.checks <= max_retries
    /\ job.state = "TIMED_OUT" => seen.polls = max_retries

C4_Witness ==
    /\ job.state = "TIMED_OUT"
    /\ seen.checks = 120
    /\ seen.polls = 120

\* C5: when the 5th status-check iteration in a row has failed (all inner
\* attempts raised) the job is ABORTED with the too-many-consecutive-errors
\* reason; a run of failed iterations never reaches 6.
C5_AbortedOnFifthFailure ==
    /\ seen.fail_run <= 5
    /\ seen.fail_run = 5 =>
           /\ job.state = "ABORTED"
           /\ job.raised = "TooManyConsecutiveErrors"
           /\ job.error_msg = "call_failed"

C5_Witness ==
    /\ seen.fail_run = 5
    /\ seen.polls > 0
    /\ job.state = "ABORTED"

\* C6: a job whose status checks return k non-terminal statuses and then
\* ready (0 <= k < 120, no failed call, no failed/error status) is READY at
\* once: after k non-terminal polls and k+1 iterations, with the attempt
\* counter at k, holding the task that carries the remote object id.
C6_ReadyAfterKPolls ==
    /\ job.task.status = "ready" => job.state = "READY"
    /\ (job.state = "READY" /\ seen.call_fails = 0 /\ seen.bad = 0) =>
           /\ job.retries = seen.polls
           /\ seen.polls < max_retries
           /\ seen.checks = seen.polls + 1
           /\ job.task.status = "ready"
           /\ job.task.video_id = VideoIdOf(job.task_id)

C6_Witness ==
    /\ job.state = "READY"
    /\ seen.call_fails = 0 /\ seen.bad = 0
    /\ seen.polls = 119
    /\ seen.checks = 120

\* C23: a job is ABORTED only when its five most recent status-check
\* iterations all failed; an iteration that obtains a non-terminal status
\* resets the count of consecutive errors.  Stated for calls in which the
\* service never reported status failed or error.
C23_AbortOnlyAfterFiveFailuresInARow ==
    (job.state = "ABORTED" /\ seen.bad = 0) =>
        /\ seen.fail_run >= max_consecutive_errors
        /\ job.consecutive_errors = seen.fail_run

\* C25: one status-check iteration makes at most 5 remote calls; the task of
\* the first call that succeeds is returned whatever its status; and the
\* iteration adds one error to the count of the loop exactly when all 5
\* calls failed.
C25_OneErrorOnlyWhenAllCallsFail ==
    [][/\ seen'.calls \in 1..stop_after_attempt
       /\ seen'.call_fails = seen.call_fails =>
             /\ job'.task.status \in TaskStatus
             /\ job'.consecutive_errors = job.consecutive_errors
       /\ seen'.call_fails # seen.call_fails =>
             /\ seen'.calls = stop_after_attempt
             /\ job'.task = job.task
             /\ job'.consecutive_errors = job.consecutive_errors + 1]_vars

(***************************************************************************)
(* split_video.py: SplitVideoComponent.process_video                        *)
(*                                                                         *)
(* Times are counted in ticks, Tick ticks to the second: total_duration is *)
(* the float that ffprobe reports, clip_duration the IntInput (whole       *)
(* seconds).                                                               *)
(***************************************************************************)
Tick == 2
MaxTotalSeconds == 4
MaxClipSeconds == 3

Policies == {"Truncate", "Overlap Previous", "Keep Short"}

Min(a, b) == IF a < b THEN a ELSE b

\* Mutant of NumClips: the quotient is rounded down.
NumClips_Floor(total_duration, clip_duration) == total_duration \div clip_duration

\* math.ceil(total_duration / clip_duration)
NumClips(total_duration, clip_duration) ==
    (total_duration + clip_duration - 1) \div clip_duration

\* Range i before the last-clip adjustment (lines 148-150).
NaturalStart(i, clip_duration) == i * clip_duration
NaturalEnd(i, total_duration, clip_duration) ==
    Min((i + 1) * clip_duration, total_duration)
NaturalDuration(i, total_duration, clip_duration) ==
    NaturalEnd(i, total_duration, clip_duration) - NaturalStart(i, clip_duration)

\* Mutant of LastClipAdjust: Overlap Previous moves the start of the final
\* clip back but leaves its duration as it was.
LastClipAdjust_KeepsDuration(i, sp, start_time, duration) ==
    IF i = sp.num_clips - 1 /\ duration < sp.clip_duration
    THEN IF sp.last_clip_handling = "Truncate"
         THEN [truncate |-> TRUE, start_time |-> start_time,
               duration |-> duration]
         ELSE IF sp.last_clip_handling = "Overlap Previous" /\ i > 0
         THEN [truncate |-> FALSE,
               start_time |-> sp.total_duration - sp.clip_duration,
               duration |-> duration]
         ELSE [truncate |-> FALSE, start_time |-> start_time,
               duration |-> duration]
    ELSE [truncate |-> FALSE, start_time |-> start_time, duration |-> duration]

\* Mutant of LastClipAdjust: Truncate drops the final clip only when it is
\* not the first one.
LastClipAdjust_TruncateKeepsFirst(i, sp, start_time, duration) ==
    IF i = sp.num_clips - 1 /\ duration < sp.clip_duration
    THEN IF sp.last_clip_handling = "Truncate" /\ i > 0
         THEN [truncate |-> TRUE, start_time |-> start_time,
               duration |-> duration]
         ELSE IF sp.last_clip_handling = "Overlap Previous" /\ i > 0
         THEN [truncate |-> FALSE,
               start_time |-> sp.total_duration - sp.clip_duration,
               duration |-> sp.clip_duration]
         ELSE [truncate |-> FALSE, start_time |-> start_time,
               duration |-> duration]
    ELSE [truncate |-> FALSE, start_time |-> start_time, duration |-> duration]

\* Mutant of LastClipAdjust: Overlap Previous moves the start back without
\* the test i > 0.
LastClipAdjust_NoFirstClipTest(i, sp, start_time, duration) ==
    IF i = sp.num_clips - 1 /\ duration < sp.clip_duration
    THEN IF sp.last_clip_handling = "Truncate"
         THEN [truncate |-> TRUE, start_time |-> start_time,
               duration |-> duration]
         ELSE IF sp.last_clip_handling = "Overlap Previous"
         THEN [truncate |-> FALSE,
               start_time |-> sp.total_duration - sp.clip_duration,
               duration |-> sp.clip_duration]
         ELSE [truncate |-> FALSE, start_time |-> start_time,
               duration |-> duration]
    ELSE [truncate |-> FALSE, start_time |-> start_time, duration |-> duration]

\* Lines 152-161: the adjustment of a final clip shorter than clip_duration.
\* truncate is the `continue` of the Truncate policy.
LastClipAdjust(i, sp, start_time, duration) ==
    IF i = sp.num_clips - 1 /\ duration < sp.clip_duration
    THEN IF sp.last_clip_handling = "Truncate"
         THEN [truncate |-> TRUE, start_time |-> start_time,
               duration |-> duration]
         ELSE IF sp.last_clip_handling = "Overlap Previous" /\ i > 0
         THEN [truncate |-> FALSE,
               start_time |-> sp.total_duration - sp.clip_duration,
               duration |-> sp.clip_duration]
         ELSE [truncate |-> FALSE, start_time |-> start_time,
               duration |-> duration]
    ELSE [truncate |-> FALSE, start_time |-> start_time, duration |-> duration]

\* Mutant of ClipPlan: the minimum-duration test of lines 164-165 is missing.
ClipPlan_NoMinimum(i, sp) ==
    LET start_time == NaturalStart(i, sp.clip_duration)
        end_time == NaturalEnd(i, sp.total_duration, sp.clip_duration)
        adj == LastClipAdjust(i, sp, start_time, end_time - start_time)
    IN  [skip |-> adj.truncate,
         start_time |-> adj.start_time,
         end_time |-> end_time,
         duration |-> adj.duration]

\* Lines 148-165: the range of clip i, the last-clip adjustment, then the
\* test `duration < 1` on the adjusted duration; skip is either `continue`.
ClipPlan(i, sp) ==
    LET start_time == NaturalStart(i, sp.clip_duration)
        end_time == NaturalEnd(i, sp.total_duration, sp.clip_duration)
        adj == LastClipAdjust(i, sp, start_time, end_time - start_time)
    IN  [skip |-> adj.truncate \/ adj.duration < 1 * Tick,
         start_time |-> adj.start_time,
         end_time |-> end_time,
         duration |-> adj.duration]

\* The Data object appended for clip i (lines 188-215).
ClipData(i, plan) ==
    [clip_index |-> i, start_time |-> plan.start_time,
     end_time |-> plan.end_time, duration |-> plan.duration]

\* The Data object of the original video (lines 127-144).
OriginalData(total_duration) ==
    [clip_index |-> -1, start_time |-> 0, end_time |-> total_duration,
     duration |-> total_duration]

SplitInit ==
    /\ split \in
          [pc : {"start"},
           total_duration : 1..(MaxTotalSeconds * Tick),
           clip_duration : {c * Tick : c \in 1..MaxClipSeconds},
           last_clip_handling : Policies,
           include_original : BOOLEAN,
           num_clips : {0},
           i : {0},
           video_paths : {<<>>},
           ffmpeg : {<<>>}]
    /\ job = IdleJob
    /\ seen = NothingSeen
    /\ IndexIdle
    /\ RunIdle

\* Lines 109-144: probe the duration, count the clips, prepend the original.
SplitStart(probe_ok) ==
    /\ split.pc = "start"
    /\ split' =
          IF probe_ok
          THEN [split EXCEPT
                  !.pc = "loop",
                  !.num_clips = NumClips(split.total_duration, split.clip_duration),
                  !.video_paths = IF split.include_original
                                  THEN <<OriginalData(split.total_duration)>>
                                  ELSE <<>>]
          ELSE [split EXCEPT !.pc = "raised"]
    /\ UNCHANGED <<waitVars, indexVars, runVars, status>>

\* Mutant of SplitClip: a clip whose transcoding failed is left out and the
\* loop goes on.
SplitClip_SkipsFailedClip(ffmpeg_ok) ==
    /\ split.pc = "loop"
    /\ LET i == split.i
           plan == ClipPlan(i, split)
           after == IF i + 1 < split.num_clips THEN "loop" ELSE "returned"
           call == [clip_index |-> i, ok |-> ffmpeg_ok]
       IN  split' =
             IF plan.skip
             THEN [split EXCEPT !.i = i + 1, !.pc = after]
             ELSE IF ~ffmpeg_ok
             THEN [split EXCEPT !.i = i + 1, !.pc = after,
                                !.ffmpeg = Append(@, call)]
             ELSE [split EXCEPT
                     !.i = i + 1, !.pc = after,
                     !.ffmpeg = Append(@, call),
                     !.video_paths = Append(@, ClipData(i, plan))]
    /\ UNCHANGED <<waitVars, indexVars, runVars, status>>

\* Lines 147-222: iteration i of the loop; ffmpeg_ok is the exit status of
\* the transcoding call (lines 170-186), which is logged in split.ffmpeg.
\* A non-zero status raises RuntimeError, re-raised at lines 219 and 226;
\* after the last iteration the list is returned.
SplitClip(ffmpeg_ok) ==
    /\ split.pc = "loop"
    /\ LET i == split.i
           plan == ClipPlan(i, split)
           after == IF i + 1 < split.num_clips THEN "loop" ELSE "returned"
           call == [clip_index |-> i, ok |-> ffmpeg_ok]
       IN  split' =
             IF plan.skip
             THEN [split EXCEPT !.i = i + 1, !.pc = after]
             ELSE IF ~ffmpeg_ok
             THEN [split EXCEPT !.pc = "raised", !.video_paths = <<>>,
                                !.ffmpeg = Append(@, call)]
             ELSE [split EXCEPT
                     !.i = i + 1, !.pc = after,
                     !.ffmpeg = Append(@, call),
                     !.video_paths = Append(@, ClipData(i, plan))]
    /\ UNCHANGED <<waitVars, indexVars, runVars, status>>

SplitNext ==
    \/ \E probe_ok \in BOOLEAN : SplitStart(probe_ok)
    \/ \E ffmpeg_ok \in BOOLEAN : SplitClip(ffmpeg_ok)

SpecSplit == SplitInit /\ [][SplitNext]_vars

(***************************************************************************)
(* Claims about process_video (SpecSplit)                                   *)
(***************************************************************************)
Emitted == {split.video_paths[k] : k \in 1..Len(split.video_paths)}
EmittedClips == {c \in Emitted : c.clip_index >= 0}

NaturalOf(c) ==
    NaturalDuration(c.clip_index, split.total_duration, split.clip_duration)

\* C3 as claimed: under every last-clip policy no emitted clip has a natural
\* duration min((i+1)*clipDuration, totalDuration) - i*clipDuration below
\* one second.
C3_NoClipWithShortNaturalRange ==
    split.pc # "idle" =>
        \A c \in EmittedClips : NaturalOf(c) >= 1 * Tick

\* C3 amended: no emitted clip lasts less than one second; a range whose
\* natural duration is below one second is emitted only under Overlap
\* Previous, as the final clip of several, pulled back to
\* [totalDuration - clipDuration, totalDuration) with the full clip
\* duration; under Truncate and Keep Short, and for a single clip, it is
\* dropped.
C3_NoShortClipEmitted ==
    split.pc # "idle" =>
        /\ \A c \in EmittedClips :
              /\ c.duration >= 1 * Tick
              /\ NaturalOf(c) < 1 * Tick =>
                    /\ split.last_clip_handling = "Overlap Previous"
                    /\ c.clip_index = split.num_clips - 1
                    /\ c.clip_index > 0
                    /\ c.start_time = split.total_duration - split.clip_duration
                    /\ c.end_time = split.total_duration
                    /\ c.duration = split.clip_duration
        /\ split.pc = "returned" =>
              \A i \in 0..(split.num_clips - 1) :
                  (/\ NaturalDuration(i, split.total_duration,
                                      split.clip_duration) < 1 * Tick
                   /\ \/ split.last_clip_handling # "Overlap Previous"
                      \/ i = 0)
                  => ~\E c \in EmittedClips : c.clip_index = i

\* A final range of half a second dropped under Keep Short.
C3_Witness ==
    /\ split.pc = "returned"
    /\ split.last_clip_handling = "Keep Short"
    /\ split.num_clips > 1
    /\ NaturalDuration(split.num_clips - 1, split.total_duration,
                       split.clip_duration) < 1 * Tick
    /\ Cardinality(EmittedClips) = split.num_clips - 1

IsClip(c) == c.clip_index >= 0
ClipSeq == SelectSeq(split.video_paths, IsClip)
LastNatural ==
    split.total_duration - (split.num_clips - 1) * split.clip_duration
FullClip(i) ==
    [clip_index |-> i, start_time |-> i * split.clip_duration,
     end_time |-> (i + 1) * split.clip_duration,
     duration |-> split.clip_duration]

\* C14: num_clips is the ceiling of total_duration / clip_duration; under
\* Keep Short the returned clips are exactly the natural ranges
\* [i*clip, min((i+1)*clip, total)) that last at least one second, each
\* unchanged under its own clip_index i, in ascending order of i.
C14_KeepShortEmitsNaturalRanges ==
    split.pc \in {"loop", "returned"} =>
        LET total == split.total_duration
            clip == split.clip_duration
            n == split.num_clips
            kept == {i \in 0..(n - 1) :
                        Min((i + 1) * clip, total) - i * clip >= 1 * Tick}
        IN  /\ (n - 1) * clip < total
            /\ total <= n * clip
            /\ (split.pc = "returned" /\ split.last_clip_handling = "Keep Short")
                  => /\ Len(ClipSeq) = Cardinality(kept)
                     /\ {ClipSeq[k].clip_index : k \in 1..Len(ClipSeq)} = kept
                     /\ \A k \in 1..(Len(ClipSeq) - 1) :
                           ClipSeq[k].clip_index < ClipSeq[k + 1].clip_index
                     /\ \A k \in 1..Len(ClipSeq) :
                           LET c == ClipSeq[k] IN
                           /\ c.start_time = c.clip_index * clip
                           /\ c.end_time = Min((c.clip_index + 1) * clip, total)
                           /\ c.duration = c.end_time - c.start_time

\* Several clips were returned under Keep Short, the final one shorter than
\* clip_duration.
C14_Witness ==
    /\ split.pc = "returned"
    /\ split.last_clip_handling = "Keep Short"
    /\ split.num_clips > 1
    /\ LastNatural < split.clip_duration
    /\ Len(ClipSeq) = split.num_clips
    /\ ClipSeq[Len(ClipSeq)].duration = LastNatural

\* C15: under Overlap Previous, with more than one clip and a final natural
\* range shorter than clip_duration, the final clip returned is
\* [total - clip, total) with duration clip_duration and the earlier clips
\* are the unchanged full ranges; a single clip keeps its natural range
\* [0, total).
C15_OverlapPullsBackFinalClip ==
    (split.pc = "returned" /\ split.last_clip_handling = "Overlap Previous") =>
        LET total == split.total_duration
            clip == split.clip_duration
            n == split.num_clips
        IN  /\ (n > 1 /\ LastNatural < clip) =>
                  /\ Len(ClipSeq) = n
                  /\ \A k \in 1..(n - 1) : ClipSeq[k] = FullClip(k - 1)
                  /\ ClipSeq[n] = [clip_index |-> n - 1,
                                   start_time |-> total - clip,
                                   end_time |-> total, duration |-> clip]
            /\ n = 1 =>
                  \A k \in 1..Len(ClipSeq) :
                      ClipSeq[k] = [clip_index |-> 0, start_time |-> 0,
                                    end_time |-> total, duration |-> total]
            /\ (n = 1 /\ total >= 1 * Tick) => Len(ClipSeq) = 1

\* The final clip of several was pulled back over the previous one.
C15_Witness ==
    /\ split.pc = "returned"
    /\ split.last_clip_handling = "Overlap Previous"
    /\ split.num_clips > 1
    /\ LastNatural < split.clip_duration
    /\ Len(ClipSeq) = split.num_clips
    /\ ClipSeq[Len(ClipSeq)].start_time <
          ClipSeq[Len(ClipSeq) - 1].end_time

\* C16: under Truncate a final range shorter than clip_duration is dropped:
\* every clip returned lasts exactly clip_duration and their number is the
\* floor of total_duration / clip_duration (none when total < clip).
C16_TruncateKeepsFullClipsOnly ==
    (split.pc = "returned" /\ split.last_clip_handling = "Truncate") =>
        /\ \A k \in 1..Len(ClipSeq) : ClipSeq[k].duration = split.clip_duration
        /\ Len(ClipSeq) = split.total_duration \div split.clip_duration
        /\ LastNatural < split.clip_duration =>
              \A k \in 1..Len(ClipSeq) :
                  ClipSeq[k].clip_index # split.num_clips - 1

\* A video shorter than clip_duration but longer than a second gave no clip.
C16_Witness ==
    /\ split.pc = "returned"
    /\ split.last_clip_handling = "Truncate"
    /\ split.total_duration < split.clip_duration
    /\ split.total_duration >= 1 * Tick
    /\ ClipSeq = <<>>

\* C17: under every policy every clip appended (clip_index >= 0) has
\* 0 <= start_time < end_time <= total_duration; the start that Overlap
\* Previous pulls back to total - clip is not negative.
C17_ClipRangeWithinVideo ==
    \A k \in 1..Len(ClipSeq) :
        LET c == ClipSeq[k] IN
        /\ 0 <= c.start_time
        /\ c.start_time < c.end_time
        /\ c.end_time <= split.total_duration

\* A clip whose start was pulled back by Overlap Previous.
C17_Witness ==
    /\ split.last_clip_handling = "Overlap Previous"
    /\ \E k \in 1..Len(ClipSeq) :
          /\ ClipSeq[k].clip_index > 0
          /\ ClipSeq[k].start_time # ClipSeq[k].clip_index * split.clip_duration
          /\ ClipSeq[k].start_time =
                split.total_duration - split.clip_duration

\* C18: a transcoding call that fails is the last one made: process_video
\* raises and no list is returned, whatever was extracted before; a list is
\* returned only when every transcoding call succeeded.
C18_ExtractionFailureIsFatal ==
    split.pc # "idle" =>
        /\ \A k \in 1..Len(split.ffmpeg) :
              ~split.ffmpeg[k].ok =>
                  /\ k = Len(split.ffmpeg)
                  /\ split.pc = "raised"
                  /\ split.video_paths = <<>>
        /\ split.pc = "returned" =>
              /\ \A k \in 1..Len(split.ffmpeg) : split.ffmpeg[k].ok
              /\ Len(ClipSeq) = Len(split.ffmpeg)

\* The second transcoding call failed with clips still to come, after the
\* original and the first clip had been put in the list.
C18_Witness ==
    /\ split.pc = "raised"
    /\ split.include_original
    /\ Len(split.ffmpeg) = 2
    /\ split.ffmpeg[1].ok
    /\ ~split.ffmpeg[2].ok
    /\ split.ffmpeg[2].clip_index < split.num_clips - 1

(***************************************************************************)
(* pegasus_index.py: PegasusIndexVideo._get_or_create_index                 *)
(*                                                                         *)
(* An index is [id, name]; ids are positive integers, 0 stands for an      *)
(* empty index_id input and "" for an empty index_name.  The service keeps *)
(* its indexes in a list: index.list() yields all of them in that order,   *)
(* index.create appends one with a fresh id.                               *)
(***************************************************************************)
MaxIndexes == 2
IndexNames == {"a", "b"}

RemoteIndexLists ==
    UNION {[1..n -> IndexNames] : n \in 0..MaxIndexes}

\* The service's list for a choice of names: the id of an index is its place.
RemoteOf(names) == [k \in 1..Len(names) |-> [id |-> k, name |-> names[k]]]

MaxOf(S) == IF S = {} THEN 0 ELSE CHOOSE m \in S : \A x \in S : x <= m

FreshId(idx) == MaxOf({idx[k].id : k \in 1..Len(idx)}) + 1

\* client.index.retrieve(id=...): the index with that id, if there is one.
HasIndex(idx, id) == \E k \in 1..Len(idx) : idx[k].id = id
IndexById(idx, id) == idx[CHOOSE k \in 1..Len(idx) : idx[k].id = id]

\* Mutant of FirstNamed: the loop compares the wrong attribute, so no listed
\* index ever matches.
FirstNamed_NoMatch(idx, name) == 0

\* Lines 84-86: the place of the first listed index with idx.name ==
\* self.index_name, 0 when the loop ends without returning.
FirstNamed(idx, name) ==
    IF \E k \in 1..Len(idx) : idx[k].name = name
    THEN CHOOSE k \in 1..Len(idx) :
            /\ idx[k].name = name
            /\ \A m \in 1..(k - 1) : idx[m].name # name
    ELSE 0

Raised(error, calls, idx) ==
    [outcome |-> "raised", id |-> 0, name |-> "", error |-> error,
     calls |-> calls, indexes |-> idx]

Returned(id, name, calls, idx) ==
    [outcome |-> "returned", id |-> id, name |-> name, error |-> "none",
     calls |-> calls, indexes |-> idx]

\* Lines 79-100: resolution by name; calls are the remote calls made so far.
ResolveByName(cfg, idx, env, calls) ==
    IF ~env.list_ok
    THEN Raised("list_failed", Append(calls, "list"), idx)
    ELSE LET k == FirstNamed(idx, cfg.index_name) IN
         IF k # 0
         THEN Returned(idx[k].id, idx[k].name, Append(calls, "list"), idx)
         ELSE IF ~env.create_ok
         THEN Raised("create_failed", calls \o <<"list", "create">>, idx)
         ELSE LET new == [id |-> FreshId(idx), name |-> cfg.index_name] IN
              Returned(new.id, new.name, calls \o <<"list", "create">>,
                       Append(idx, new))

\* Mutant of GetOrCreateIndex: the except clause of the lookup always raises,
\* so a failed lookup never falls back to the name.
GetOrCreateIndex_NoFallback(cfg, idx, env) ==
    IF cfg.index_id # 0
    THEN IF env.retrieve_ok /\ HasIndex(idx, cfg.index_id)
         THEN Returned(cfg.index_id, IndexById(idx, cfg.index_id).name,
                       <<"retrieve">>, idx)
         ELSE Raised("invalid_index_id", <<"retrieve">>, idx)
    ELSE IF cfg.index_name # ""
    THEN ResolveByName(cfg, idx, env, <<>>)
    ELSE Raised("no_index_given", <<>>, idx)

\* Lines 67-103.  env says which remote calls the service lets succeed.
GetOrCreateIndex(cfg, idx, env) ==
    IF cfg.index_id # 0
    THEN IF env.retrieve_ok /\ HasIndex(idx, cfg.index_id)
         THEN Returned(cfg.index_id, IndexById(idx, cfg.index_id).name,
                       <<"retrieve">>, idx)
         ELSE IF cfg.index_name = ""
         THEN Raised("invalid_index_id", <<"retrieve">>, idx)
         ELSE ResolveByName(cfg, idx, env, <<"retrieve">>)
    ELSE IF cfg.index_name # ""
    THEN ResolveByName(cfg, idx, env, <<>>)
    ELSE Raised("no_index_given", <<>>, idx)

Envs == [retrieve_ok : BOOLEAN, list_ok : BOOLEAN, create_ok : BOOLEAN]

ResolveInit ==
    /\ self \in [videodata : {<<>>}, api_key : {"k"},
                 index_name : IndexNames \cup {""},
                 index_id : 0..(MaxIndexes + 1)]
    /\ indexes \in {RemoteOf(names) : names \in RemoteIndexLists}
    /\ resolutions = <<>>
    /\ job = IdleJob
    /\ seen = NothingSeen
    /\ split = IdleSplit
    /\ RunIdle

\* What a call of _get_or_create_index has done, as recorded in resolutions.
ResolutionEntry(r) ==
    [outcome |-> r.outcome, id |-> r.id, name |-> r.name,
     error |-> r.error, calls |-> r.calls]

\* What the service answers to a lookup of index id: the index, if the call
\* gets through and the index exists.
ServiceLookup(idx, id, env) == id # 0 /\ env.retrieve_ok /\ HasIndex(idx, id)

\* The entry of a call of _get_or_create_index, with what the service held
\* before and after it and what it answers to the lookup.
ResolutionLog(cfg, idx, env) ==
    LET r == GetOrCreateIndex(cfg, idx, env) IN
    ResolutionEntry(r) @@
        [lookup_ok |-> ServiceLookup(idx, cfg.index_id, env),
         before |-> idx, after |-> r.indexes]

\* One call of _get_or_create_index.
Resolve(env) ==
    /\ Len(resolutions) < 2
    /\ LET r == GetOrCreateIndex(self, indexes, env) IN
       /\ indexes' = r.indexes
       /\ resolutions' = Append(resolutions, ResolutionLog(self, indexes, env))
    /\ UNCHANGED <<self, waitVars, splitVars, runVars, status>>

ResolveNext == \E env \in Envs : Resolve(env)

SpecResolve == ResolveInit /\ [][ResolveNext]_vars

(***************************************************************************)
(* Claims about _get_or_create_index (SpecResolve)                          *)
(***************************************************************************)
Called(r, call) == \E k \in 1..Len(r.calls) : r.calls[k] = call
Created(r) == r.outcome = "returned" /\ Called(r, "create")
ByNameOnly == self.index_id = 0 /\ self.index_name # ""

\* C10: resolving twice in sequence by the same index_name (no index_id),
\* from any remote index list: at most one index is created over both
\* calls; when both calls return they return the same (id, name), and the
\* second finds the index by exact name in the list and issues no create
\* call.
C10_ResolveTwiceIdempotent ==
    ByNameOnly =>
        /\ Cardinality({k \in 1..Len(resolutions) : Created(resolutions[k])}) <= 1
        /\ (/\ Len(resolutions) = 2
            /\ resolutions[1].outcome = "returned"
            /\ resolutions[2].outcome = "returned") =>
               /\ resolutions[2].id = resolutions[1].id
               /\ resolutions[2].name = resolutions[1].name
               /\ resolutions[2].name = self.index_name
               /\ resolutions[2].calls = <<"list">>
               /\ \E k \in 1..Len(indexes) :
                     indexes[k] = [id |-> resolutions[2].id,
                                   name |-> resolutions[2].name]

\* Both calls returned and the first one created the index.
C10_Witness ==
    /\ ByNameOnly
    /\ Len(resolutions) = 2
    /\ Created(resolutions[1])
    /\ resolutions[2].outcome = "returned"
    /\ Len(indexes) = MaxIndexes + 1

NamedIn(idx, name) == \E k \in 1..Len(idx) : idx[k].name = name

MaxAssets == 2
MaxScript == 2
MaxPoolJobs == 11
pool_limit == 10

InvalidKinds == {"not_data", "data_not_dict", "no_path", "file_missing"}

NoMetadata == [shape |-> "absent", items |-> {}]
NonDictMetadata == [shape |-> "not_dict", items |-> {}]
DictMetadata == [shape |-> "dict", items |-> {<<"source", 8>>, <<"video_id", 7>>}]

Assets ==
    {[kind |-> k, metadata |-> NoMetadata] : k \in InvalidKinds}
    \cup {[kind |-> "ok", metadata |-> m] :
             m \in {NoMetadata, NonDictMetadata, DictMetadata}}

Batches == UNION {[1..n -> Assets] : n \in 0..MaxAssets}

\* Mutant of IsValidVideo: the test that the file exists (line 228) is
\* missing.
IsValidVideo_NoFileTest(item) ==
    /\ item.kind # "not_data"
    /\ item.kind # "data_not_dict"
    /\ item.kind # "no_path"

\* Lines 214-230: the four tests that skip an item.
IsValidVideo(item) ==
    /\ item.kind # "not_data"
    /\ item.kind # "data_not_dict"
    /\ item.kind # "no_path"
    /\ item.kind # "file_missing"

\* Lines 212-232: the places of the valid items, in input order.
ValidVideos(videodata) ==
    LET F[k \in 0..Len(videodata)] ==
            IF k = 0 THEN <<>>
            ELSE IF IsValidVideo(videodata[k]) THEN Append(F[k - 1], k)
            ELSE F[k - 1]
    IN  F[Len(videodata)]

MergedKeys == {"video_id", "index_id", "index_name"}

\* Mutant of MergeMetadata: the three keys are put in a fresh mapping
\* whatever the metadata was.
MergeMetadata_FreshMapping(md, video_id, index_id, index_name) ==
    [shape |-> "dict",
     items |-> {<<"video_id", video_id>>, <<"index_id", index_id>>,
                <<"index_name", index_name>>}]

\* Lines 269-280: metadata after the merge.
MergeMetadata(md, video_id, index_id, index_name) ==
    LET base == IF md.shape = "dict" THEN md.items ELSE {} IN
    [shape |-> "dict",
     items |-> {p \in base : p[1] \notin MergedKeys}
               \cup {<<"video_id", video_id>>, <<"index_id", index_id>>,
                     <<"index_name", index_name>>}]

(***************************************************************************)
(* A whole call of _wait_for_task_completion against a remote service      *)
(* that answers the status checks as script says, its last answer for ever *)
(* after.  An answer is [nfail, st] as in WaitCheck.                       *)
(***************************************************************************)
Answers ==
    {[nfail |-> 0, st |-> st] : st \in TaskStatus}
    \cup {[nfail |-> stop_after_attempt, st |-> "queued"]}

Scripts == UNION {[1..n -> Answers] : n \in 1..MaxScript}

RECURSIVE WaitRun(_, _, _)
WaitRun(j, script, pos) ==
    IF j.state # "POLLING" THEN j
    ELSE WaitRun(
           WaitIteration(j, CheckTaskStatus(j.task_id, script[pos].nfail,
                                            script[pos].st)),
           script,
           IF pos < Len(script) THEN pos + 1 ELSE pos)

\* What future.result() gives for a finished call: the task returned, or the
\* exception raised.
ResultOf(j) ==
    [outcome |-> j.state,
     task |-> IF j.state = "READY" THEN j.task ELSE NoTask,
     raised |-> j.raised]

MaxTaskId == IF MaxAssets > MaxPoolJobs THEN MaxAssets ELSE MaxPoolJobs

\* The calls worked out once: Outcomes[t] holds <<s, result>> for the call
\* on task t when the service answers as script s.
RECURSIVE OutcomeTable(_)
OutcomeTable(n) ==
    IF n = 0 THEN <<>>
    ELSE Append(OutcomeTable(n - 1),
                {<<s, ResultOf(WaitRun(NewJob(n), s, 1))>> : s \in Scripts})

Outcomes == OutcomeTable(MaxTaskId)

Outcome(t, s) == (CHOOSE e \in Outcomes[t] : e[1] = s)[2]

WaitResults == [t \in 1..MaxTaskId |-> {e[2] : e \in Outcomes[t]}]

\* One script on which the call for task t ends with res.
ScriptWith(t, res) == (CHOOSE e \in Outcomes[t] : e[2] = res)[1]

(***************************************************************************)
(* The calling thread                                                       *)
(***************************************************************************)
NewRun ==
    [pc |-> "start", index_id |-> 0, index_name |-> "",
     valid_videos |-> <<>>, upload_tasks |-> <<>>, n |-> 1,
     max_workers |-> 0, indexed_data_list |-> <<>>, error |-> "none"]

RunInit ==
    /\ self \in [videodata : Batches, api_key : {"", "k"},
                 index_name : {"", "a"}, index_id : {0, 1}]
    /\ indexes \in {RemoteOf(names) : names \in {<<>>, <<"a">>, <<"b">>}}
    /\ resolutions = <<>>
    /\ run = NewRun
    /\ futures = <<>>
    /\ uploads = <<>>
    /\ status = NoStatus
    /\ job = IdleJob
    /\ seen = NothingSeen
    /\ split = IdleSplit

\* Lines 190-198: the pre-flight tests.
RunStart ==
    /\ run.pc = "start"
    /\ run' =
          IF Len(self.videodata) = 0
          THEN [run EXCEPT !.pc = "returned"]
          ELSE IF self.api_key = ""
          THEN [run EXCEPT !.pc = "raised", !.error = "api_key_required"]
          ELSE IF self.index_name = "" /\ self.index_id = 0
          THEN [run EXCEPT !.pc = "raised", !.error = "no_index_given"]
          ELSE [run EXCEPT !.pc = "resolve"]
    /\ status' = IF Len(self.videodata) = 0
                 THEN [msg |-> "no_video_data", item |-> 0]
                 ELSE status
    /\ UNCHANGED <<waitVars, splitVars, indexVars, futures, uploads>>

\* Lines 206-235: the last message of the resolution and the validation:
\* the failure, "No valid videos to process.", the skip of the last invalid
\* item, or the index in use.
ResolveStatus(r, valid) ==
    LET invalid == {k \in 1..Len(self.videodata) :
                       ~IsValidVideo(self.videodata[k])}
    IN  IF r.outcome = "raised" THEN [msg |-> "index_failed", item |-> 0]
        ELSE IF valid = <<>> THEN [msg |-> "no_valid_videos", item |-> 0]
        ELSE IF invalid # {} THEN [msg |-> "skipping", item |-> MaxOf(invalid)]
        ELSE [msg |-> "using_index", item |-> 0]

\* Mutant of RunResolve: a failed resolution is logged and the run goes on
\* without an index.
RunResolve_SwallowsFailure(env) ==
    /\ run.pc = "resolve"
    /\ LET r == GetOrCreateIndex(self, indexes, env)
           valid == ValidVideos(self.videodata)
       IN  /\ indexes' = r.indexes
           /\ resolutions' = Append(resolutions, ResolutionLog(self, indexes, env))
           /\ run' =
                 IF valid = <<>>
                 THEN [run EXCEPT !.pc = "returned", !.index_id = r.id,
                                  !.index_name = r.name]
                 ELSE [run EXCEPT !.pc = "upload", !.index_id = r.id,
                                  !.index_name = r.name,
                                  !.valid_videos = valid, !.n = 1]
           /\ status' = ResolveStatus(r, valid)
    /\ UNCHANGED <<self, waitVars, splitVars, futures, uploads>>

\* Lines 203-236: resolve the index, then validate the items.
RunResolve(env) ==
    /\ run.pc = "resolve"
    /\ LET r == GetOrCreateIndex(self, indexes, env)
           valid == ValidVideos(self.videodata)
       IN  /\ indexes' = r.indexes
           /\ resolutions' = Append(resolutions, ResolutionLog(self, indexes, env))
           /\ run' =
                 IF r.outcome = "raised"
                 THEN [run EXCEPT !.pc = "raised", !.error = r.error]
                 ELSE IF valid = <<>>
                 THEN [run EXCEPT !.pc = "returned", !.index_id = r.id,
                                  !.index_name = r.name]
                 ELSE [run EXCEPT !.pc = "upload", !.index_id = r.id,
                                  !.index_name = r.name,
                                  !.valid_videos = valid, !.n = 1]
           /\ status' = ResolveStatus(r, valid)
    /\ UNCHANGED <<self, waitVars, splitVars, futures, uploads>>

\* Mutant of RunUpload: a failed upload ends the upload loop (break instead
\* of continue).
RunUpload_BreakOnFailure(ok) ==
    /\ run.pc = "upload"
    /\ LET item == run.valid_videos[run.n]
           task_id == Len(run.upload_tasks) + 1
           last == run.n = Len(run.valid_videos) \/ ~ok
       IN  /\ uploads' = Append(uploads,
                  [item |-> item, ok |-> ok,
                   task_id |-> IF ok THEN task_id ELSE 0])
           /\ run' = [run EXCEPT
                        !.upload_tasks =
                            IF ok
                            THEN Append(@, [item |-> item, task_id |-> task_id])
                            ELSE @,
                        !.n = IF last THEN 1 ELSE @ + 1,
                        !.pc = IF last THEN "executor" ELSE "upload"]
    /\ status' = [msg |-> IF ok THEN "upload_complete" ELSE "upload_failed",
                  item |-> run.valid_videos[run.n]]
    /\ UNCHANGED <<waitVars, splitVars, indexVars, futures>>

\* Mutant of RunUpload: the polling call of a task is submitted as soon as
\* the task is created.
RunUpload_SubmitsAtOnce(ok) ==
    /\ run.pc = "upload"
    /\ LET item == run.valid_videos[run.n]
           task_id == Len(run.upload_tasks) + 1
           last == run.n = Len(run.valid_videos)
       IN  /\ uploads' = Append(uploads,
                  [item |-> item, ok |-> ok,
                   task_id |-> IF ok THEN task_id ELSE 0])
           /\ futures' =
                 IF ok
                 THEN Append(futures,
                        [state |-> "pending", item |-> item, task_id |-> task_id,
                         script |-> <<>>, outcome |-> "none", task |-> NoTask,
                         raised |-> "none"])
                 ELSE futures
           /\ run' = [run EXCEPT
                        !.upload_tasks =
                            IF ok
                            THEN Append(@, [item |-> item, task_id |-> task_id])
                            ELSE @,
                        !.n = IF last THEN 1 ELSE @ + 1,
                        !.pc = IF last THEN "executor" ELSE "upload"]
    /\ status' = [msg |-> IF ok THEN "upload_complete" ELSE "upload_failed",
                  item |-> run.valid_videos[run.n]]
    /\ UNCHANGED <<waitVars, splitVars, indexVars>>

\* Lines 240-246, one iteration: _upload_video for the next valid item.  ok
\* says whether opening the file and client.task.create both succeed; the
\* service numbers the tasks it creates.
RunUpload(ok) ==
    /\ run.pc = "upload"
    /\ LET item == run.valid_videos[run.n]
           task_id == Len(run.upload_tasks) + 1
           last == run.n = Len(run.valid_videos)
       IN  /\ uploads' = Append(uploads,
                  [item |-> item, ok |-> ok,
                   task_id |-> IF ok THEN task_id ELSE 0])
           /\ run' = [run EXCEPT
                        !.upload_tasks =
                            IF ok
                            THEN Append(@, [item |-> item, task_id |-> task_id])
                            ELSE @,
                        !.n = IF last THEN 1 ELSE @ + 1,
                        !.pc = IF last THEN "executor" ELSE "upload"]
    /\ status' = [msg |-> IF ok THEN "upload_complete" ELSE "upload_failed",
                  item |-> run.valid_videos[run.n]]
    /\ UNCHANGED <<waitVars, splitVars, indexVars, futures>>

\* Mutant of PoolSize: one worker per uploaded task.
PoolSize_Unbounded(n) == n

\* Line 249: min(10, len(upload_tasks)).
PoolSize(n) == Min(pool_limit, n)

\* Line 249: ThreadPoolExecutor(max_workers=...) raises ValueError when
\* max_workers <= 0.
RunOpenExecutor ==
    /\ run.pc = "executor"
    /\ LET size == PoolSize(Len(run.upload_tasks)) IN
       run' = IF size <= 0
              THEN [run EXCEPT !.pc = "raised",
                               !.error = "max_workers_must_be_positive"]
              ELSE [run EXCEPT !.pc = "submit", !.max_workers = size, !.n = 1]
    /\ UNCHANGED <<waitVars, splitVars, indexVars, futures, uploads, status>>

\* Lines 251-258, one iteration: executor.submit for the next uploaded task.
RunSubmit ==
    /\ run.pc = "submit"
    /\ LET t == run.upload_tasks[run.n]
           last == run.n = Len(run.upload_tasks)
       IN  /\ futures' = Append(futures,
                  [state |-> "pending", item |-> t.item, task_id |-> t.task_id,
                   script |-> <<>>, outcome |-> "none", task |-> NoTask,
                   raised |-> "none"])
           /\ run' = [run EXCEPT !.n = IF last THEN 1 ELSE @ + 1,
                                 !.pc = IF last THEN "collect" ELSE "submit"]
    /\ UNCHANGED <<waitVars, splitVars, indexVars, uploads, status>>

(***************************************************************************)
(* The executor's worker threads: at most max_workers of them, each taking *)
(* the oldest pending work item and running _wait_for_task_completion.     *)
(***************************************************************************)
Running == {k \in 1..Len(futures) : futures[k].state = "running"}
Pending == {k \in 1..Len(futures) : futures[k].state = "pending"}

\* A free worker takes the oldest pending call and enters its loop, whose
\* first statement (line 141) writes self.status.
WorkerStart(k) ==
    /\ futures[k].state = "pending"
    /\ \A m \in 1..(k - 1) : futures[m].state # "pending"
    /\ Cardinality(Running) < run.max_workers
    /\ futures' = [futures EXCEPT ![k].state = "running"]
    /\ status' = [msg |-> "task_progress", item |-> futures[k].item]
    /\ UNCHANGED <<run, uploads, waitVars, splitVars, indexVars>>

\* A running call writes self.status again (lines 108, 141, 149-164).
WorkerPoll(k, msg) ==
    /\ futures[k].state = "running"
    /\ status' = [msg |-> msg, item |-> futures[k].item]
    /\ UNCHANGED <<run, futures, uploads, waitVars, splitVars, indexVars>>

\* Mutant of WorkerFinish: a call that ends after another call has raised
\* ends with that call's exception.
WorkerFinish_CancelledByFailure(k, script) ==
    /\ futures[k].state = "running"
    /\ LET own == Outcome(futures[k].task_id, script)
           failed == {m \in 1..Len(futures) :
                         futures[m].state = "done" /\ futures[m].outcome # "READY"}
           res == IF failed = {} THEN own
                  ELSE LET m == CHOOSE m \in failed : TRUE IN
                       [outcome |-> futures[m].outcome, task |-> futures[m].task,
                        raised |-> futures[m].raised]
       IN  /\ futures' = [futures EXCEPT ![k].state = "done",
                                         ![k].script = script,
                                         ![k].outcome = res.outcome,
                                         ![k].task = res.task,
                                         ![k].raised = res.raised]
           /\ status' = [msg |-> TerminalMessage(res.outcome),
                         item |-> futures[k].item]
    /\ UNCHANGED <<run, uploads, waitVars, splitVars, indexVars>>

\* Mutant of WorkerFinish: the worker itself appends the item of a ready
\* task to the list the calling thread returns.
WorkerFinish_AppendsResult(k, script) ==
    /\ futures[k].state = "running"
    /\ LET res == Outcome(futures[k].task_id, script) IN
       /\ futures' = [futures EXCEPT ![k].state = "done",
                                     ![k].script = script,
                                     ![k].outcome = res.outcome,
                                     ![k].task = res.task,
                                     ![k].raised = res.raised]
       /\ run' = IF res.outcome = "READY"
                 THEN [run EXCEPT !.indexed_data_list =
                          Append(@, [item |-> futures[k].item,
                                     metadata |->
                                        self.videodata[futures[k].item].metadata])]
                 ELSE run
       /\ status' = [msg |-> TerminalMessage(res.outcome),
                     item |-> futures[k].item]
    /\ UNCHANGED <<uploads, waitVars, splitVars, indexVars>>

\* The call of worker k ends: the service has answered its status checks as
\* script says, the future holds the task returned or the exception raised,
\* and the last message of the call is in self.status.
WorkerFinish(k, script) ==
    /\ futures[k].state = "running"
    /\ LET res == Outcome(futures[k].task_id, script) IN
       /\ futures' = [futures EXCEPT ![k].state = "done",
                                     ![k].script = script,
                                     ![k].outcome = res.outcome,
                                     ![k].task = res.task,
                                     ![k].raised = res.raised]
       /\ status' = [msg |-> TerminalMessage(res.outcome),
                     item |-> futures[k].item]
    /\ UNCHANGED <<run, uploads, waitVars, splitVars, indexVars>>

\* Lines 266, 273 and 285-290: the last message of the iteration that
\* collected future f, and after the last iteration the final message.
CollectStatus(f, ready, last, list) ==
    IF last
    THEN [msg |-> IF list = <<>> /\ ~ready THEN "none_indexed" ELSE "finished",
          item |-> 0]
    ELSE [msg |-> IF ~ready THEN "failed_to_process"
                  ELSE IF self.videodata[f.item].metadata.shape = "not_dict"
                  THEN "overwriting_metadata"
                  ELSE "indexed",
          item |-> f.item]

\* Mutant of RunCollect: the result of a call that raised is merged too.
RunCollect_MergeAll ==
    /\ run.pc = "collect"
    /\ futures[run.n].state = "done"
    /\ LET f == futures[run.n]
           last == run.n = Len(futures)
           md == MergeMetadata(self.videodata[f.item].metadata,
                               f.task.video_id, run.index_id, run.index_name)
       IN  /\ self' = [self EXCEPT !.videodata[f.item].metadata = md]
           /\ run' = [run EXCEPT
                        !.indexed_data_list =
                            Append(@, [item |-> f.item, metadata |-> md]),
                        !.n = IF last THEN @ ELSE @ + 1,
                        !.pc = IF last THEN "returned" ELSE "collect"]
           /\ status' = CollectStatus(f, TRUE, last, run.indexed_data_list)
    /\ UNCHANGED <<futures, uploads, waitVars, splitVars, indexes, resolutions>>

\* Mutant of RunCollect: the item of a ready task is put at the front of the
\* list.
RunCollect_PutsInFront ==
    /\ run.pc = "collect"
    /\ futures[run.n].state = "done"
    /\ LET f == futures[run.n]
           last == run.n = Len(futures)
           ready == f.outcome = "READY" /\ f.task.status = "ready"
           md == MergeMetadata(self.videodata[f.item].metadata,
                               f.task.video_id, run.index_id, run.index_name)
       IN  /\ self' = IF ready
                      THEN [self EXCEPT !.videodata[f.item].metadata = md]
                      ELSE self
           /\ run' = [run EXCEPT
                        !.indexed_data_list =
                            IF ready
                            THEN <<[item |-> f.item, metadata |-> md]>> \o @
                            ELSE @,
                        !.n = IF last THEN @ ELSE @ + 1,
                        !.pc = IF last THEN "returned" ELSE "collect"]
           /\ status' = CollectStatus(f, ready, last, run.indexed_data_list)
    /\ UNCHANGED <<futures, uploads, waitVars, splitVars, indexes, resolutions>>

\* Lines 261-292, one iteration: future.result() of the next future, in
\* submission order, once that future is done; the metadata dict of the item
\* is updated in place.  After the last one the executor is shut down (every
\* future is done by then) and the list is returned.
RunCollect ==
    /\ run.pc = "collect"
    /\ futures[run.n].state = "done"
    /\ LET f == futures[run.n]
           last == run.n = Len(futures)
           ready == f.outcome = "READY" /\ f.task.status = "ready"
           md == MergeMetadata(self.videodata[f.item].metadata,
                               f.task.video_id, run.index_id, run.index_name)
       IN  /\ self' = IF ready
                      THEN [self EXCEPT !.videodata[f.item].metadata = md]
                      ELSE self
           /\ run' = [run EXCEPT
                        !.indexed_data_list =
                            IF ready
                            THEN Append(@, [item |-> f.item, metadata |-> md])
                            ELSE @,
                        !.n = IF last THEN @ ELSE @ + 1,
                        !.pc = IF last THEN "returned" ELSE "collect"]
           /\ status' = CollectStatus(f, ready, last, run.indexed_data_list)
    /\ UNCHANGED <<futures, uploads, waitVars, splitVars, indexes, resolutions>>

Next ==
    \/ RunStart
    \/ \E env \in Envs : RunResolve(env)
    \/ \E ok \in BOOLEAN : RunUpload(ok)
    \/ RunOpenExecutor
    \/ RunSubmit
    \/ \E k \in 1..Len(futures) : WorkerStart(k)
    \/ \E k \in 1..Len(futures) :
          \E msg \in {"task_progress", "task_error"} : WorkerPoll(k, msg)
    \/ \E k \in 1..Len(futures) :
          \E res \in WaitResults[futures[k].task_id] :
              WorkerFinish(k, ScriptWith(futures[k].task_id, res))
    \/ RunCollect

Spec == RunInit /\ [][Next]_vars

(***************************************************************************)
(* Claims about index_videos (Spec)                                         *)
(***************************************************************************)
Output == run.indexed_data_list
OutputItems == {Output[k].item : k \in 1..Len(Output)}
FailedUploads == {k \in 1..Len(uploads) : ~uploads[k].ok}
UploadStageOver == run.valid_videos # <<>> /\ run.pc # "upload"

PreflightErrors == {"api_key_required", "no_index_given"}
ResolutionErrors == {"invalid_index_id", "list_failed", "create_failed",
                     "no_index_given"}

\* C2: only a pre-flight or an index-resolution error aborts the run; in
\* particular, with at least one valid item and the upload of every valid
\* item failed, index_videos returns an empty list instead of raising.
C2_UploadFailuresNeverAbort ==
    /\ run.pc = "raised" => run.error \in PreflightErrors \cup ResolutionErrors
    /\ (/\ UploadStageOver
        /\ run.pc # "executor"
        /\ FailedUploads = 1..Len(uploads)) =>
           run.pc = "returned" /\ Output = <<>>

\* The remote task of item i, 0 if the service created none.
TaskOfItem(i) ==
    IF \E k \in 1..Len(uploads) : uploads[k].item = i /\ uploads[k].ok
    THEN uploads[CHOOSE k \in 1..Len(uploads) :
                    uploads[k].item = i /\ uploads[k].ok].task_id
    ELSE 0

ReachedReady(i) ==
    \E k \in 1..Len(futures) :
        /\ futures[k].task_id = TaskOfItem(i)
        /\ futures[k].outcome = "READY"

ValueAt(md, key) == {p[2] : p \in {q \in md.items : q[1] = key}}

\* C8: when index_videos returns, its output holds exactly the items that
\* were valid, whose upload succeeded and whose job reached READY, each
\* once; each output item's metadata has video_id equal to the remote object
\* id of its own task, and index_id / index_name equal to the resolved index.
C8_OutputIsExactlyTheReadyItems ==
    run.pc = "returned" =>
        /\ OutputItems =
              {i \in 1..Len(self.videodata) :
                  /\ IsValidVideo(self.videodata[i])
                  /\ TaskOfItem(i) # 0
                  /\ ReachedReady(i)}
        /\ Cardinality(OutputItems) = Len(Output)
        /\ \A k \in 1..Len(Output) :
              /\ Output[k].metadata.shape = "dict"
              /\ ValueAt(Output[k].metadata, "video_id") =
                    {VideoIdOf(TaskOfItem(Output[k].item))}
              /\ ValueAt(Output[k].metadata, "index_id") = {resolutions[1].id}
              /\ ValueAt(Output[k].metadata, "index_name") =
                    {resolutions[1].name}

\* Two valid items, the upload of one failed, the other indexed and emitted.
C8_Witness ==
    /\ run.pc = "returned"
    /\ Len(run.valid_videos) = 2
    /\ Cardinality(FailedUploads) = 1
    /\ Len(Output) = 1

\* C9: a failed upload is isolated to its clip: the valid items are uploaded
\* one by one in input order and every one of them is attempted whatever
\* failed before; a clip whose upload failed gets no task, no future (no
\* polling call) and no place in the output.
C9_UploadFailureIsolated ==
    /\ Len(uploads) <= Len(run.valid_videos)
    /\ \A k \in 1..Len(uploads) : uploads[k].item = run.valid_videos[k]
    /\ UploadStageOver => Len(uploads) = Len(run.valid_videos)
    /\ \A k \in FailedUploads :
          /\ \A m \in 1..Len(run.upload_tasks) :
                run.upload_tasks[m].item # uploads[k].item
          /\ \A m \in 1..Len(futures) : futures[m].item # uploads[k].item
          /\ uploads[k].item \notin OutputItems

\* The first upload failed, the second clip was still uploaded, polled and
\* emitted.
C9_Witness ==
    /\ run.pc = "returned"
    /\ Len(uploads) = 2
    /\ ~uploads[1].ok
    /\ uploads[2].ok
    /\ OutputItems = {uploads[2].item}

NoIdentifier == self.index_name = "" /\ self.index_id = 0
NoRemoteCall ==
    /\ \A k \in 1..Len(resolutions) : resolutions[k].calls = <<>>
    /\ uploads = <<>>
    /\ futures = <<>>

\* C12: with neither an index id nor an index name, index_videos fails with
\* an invalid-input error for every batch, the empty one included, and makes
\* no remote call.
C12_NoIdentifierAlwaysFails ==
    (NoIdentifier /\ run.pc # "start") =>
        /\ run.pc = "raised"
        /\ run.error \in PreflightErrors
        /\ NoRemoteCall

\* C13: when the resolution of the index raises (lookup without a name to
\* fall back on, list or create), index_videos raises the same error: no
\* item is uploaded, no polling call is submitted and no list is returned.
C13_ResolutionFailureAbortsRun ==
    \A k \in 1..Len(resolutions) :
        resolutions[k].outcome = "raised" =>
            /\ run.pc = "raised"
            /\ run.error = resolutions[k].error
            /\ run.error \in ResolutionErrors
            /\ uploads = <<>>
            /\ futures = <<>>
            /\ run.upload_tasks = <<>>
            /\ Output = <<>>

\* The creation of the index failed on a batch with a valid item.
C13_Witness ==
    /\ Len(resolutions) = 1
    /\ resolutions[1].outcome = "raised"
    /\ resolutions[1].error = "create_failed"
    /\ ValidVideos(self.videodata) # <<>>
    /\ run.pc = "raised"

\* A step of a worker thread: a future changes, or nothing the calling
\* thread keeps does (every step of the calling thread changes run).
WorkerStep ==
    \/ Len(futures') = Len(futures) /\ futures' # futures
    \/ run' = run
ChangedFutures == {k \in 1..Len(futures) : futures'[k] # futures[k]}

\* C20 as claimed: the workers share nothing they write: a step of a polling
\* worker changes no variable that the calling thread or another worker
\* writes or reads, self.status included.
C20_WorkersWriteNothingShared ==
    [][WorkerStep =>
          /\ UNCHANGED <<run, self, indexes, resolutions, uploads, status>>
          /\ Cardinality(ChangedFutures) <= 1]_vars

\* C20 amended: the client and the resolved index are only read during the
\* polling stage, and a step of a polling worker changes nothing but its own
\* future and self.status, where it leaves a message about its own item;
\* self.status is the one variable that every worker and the calling thread
\* write.
C20_WorkersShareOnlyStatus ==
    [][/\ WorkerStep =>
             /\ UNCHANGED <<run, self, indexes, resolutions, uploads>>
             /\ Cardinality(ChangedFutures) <= 1
             /\ status' # status =>
                   /\ status'.msg \in WorkerMessages
                   /\ \E k \in 1..Len(futures) :
                         /\ futures[k].state # "done"
                         /\ futures'[k].state # "pending"
                         /\ futures'[k].item = status'.item
                         /\ ChangedFutures \subseteq {k}
       /\ run.pc \in {"submit", "collect"} =>
             /\ run'.index_id = run.index_id
             /\ run'.index_name = run.index_name
             /\ indexes' = indexes
             /\ resolutions' = resolutions
             /\ self'.api_key = self.api_key]_vars

\* The calling thread has collected the first future, writing self.status,
\* and the worker of the second call has overwritten the message.
C20_Witness ==
    /\ run.pc = "collect"
    /\ run.n = 2
    /\ futures[2].state = "running"
    /\ status.msg \in WorkerMessages
    /\ status.item = futures[2].item

Others(md) == {p \in md.items : p[1] \notin MergedKeys}

\* C21: the iteration that collects a READY job leaves the item's metadata a
\* mapping that holds video_id, index_id and index_name of the job and the
\* resolved index; a missing or non-mapping metadata becomes a mapping with
\* these three keys alone, and in a metadata that was a mapping every other
\* key keeps its value and none is added; the item appended to the output
\* carries that metadata, and no other item's metadata changes.
C21_MergeKeepsOtherKeys ==
    [][(run.pc = "collect" /\ run' # run) =>
          LET f == futures[run.n]
              old == self.videodata[f.item].metadata
              new == self'.videodata[f.item].metadata
          IN  /\ \A i \in 1..Len(self.videodata) :
                    i # f.item => self'.videodata[i] = self.videodata[i]
              /\ f.outcome # "READY" =>
                    /\ new = old
                    /\ run'.indexed_data_list = run.indexed_data_list
              /\ f.outcome = "READY" =>
                    /\ new.shape = "dict"
                    /\ ValueAt(new, "video_id") = {VideoIdOf(f.task_id)}
                    /\ ValueAt(new, "index_id") = {run.index_id}
                    /\ ValueAt(new, "index_name") = {run.index_name}
                    /\ Others(new) = IF old.shape = "dict" THEN Others(old)
                                                           ELSE {}
                    /\ run'.indexed_data_list =
                          Append(run.indexed_data_list,
                                 [item |-> f.item, metadata |-> new])]_vars

\* An item whose metadata was a mapping with a source and a stale video_id is
\* in the output with its source kept and the video_id of its own task; the
\* other output item came with a non-mapping metadata.
C21_Witness ==
    /\ run.pc = "returned"
    /\ Len(Output) = 2
    /\ ValueAt(Output[1].metadata, "source") = {8}
    /\ ValueAt(Output[1].metadata, "video_id") =
          {VideoIdOf(TaskOfItem(Output[1].item))}
    /\ Others(Output[2].metadata) = {}

Malformed == {i \in 1..Len(self.videodata) : self.videodata[i].kind \in InvalidKinds}
WellFormed == {i \in 1..Len(self.videodata) : i \notin Malformed}
Resolved == Len(resolutions) = 1 /\ resolutions[1].outcome = "returned"

\* C22: an item that is not a well-formed asset (not a Data object, data not
\* a mapping, no string path, file missing) is skipped without an error: it
\* is never uploaded, submitted for polling or returned, while the
\* well-formed items, in input order, all go to the upload stage; with no
\* well-formed item the run returns an empty list, and after a successful
\* resolution the run raises only when an upload was attempted for every
\* well-formed item.
C22_MalformedItemsAreSkipped ==
    /\ \A i \in Malformed :
          /\ \A k \in 1..Len(run.valid_videos) : run.valid_videos[k] # i
          /\ \A k \in 1..Len(uploads) : uploads[k].item # i
          /\ \A k \in 1..Len(futures) : futures[k].item # i
          /\ i \notin OutputItems
    /\ (Resolved /\ run.pc # "resolve") =>
          /\ {run.valid_videos[k] : k \in 1..Len(run.valid_videos)} = WellFormed
          /\ \A k \in 1..(Len(run.valid_videos) - 1) :
                run.valid_videos[k] < run.valid_videos[k + 1]
          /\ WellFormed = {} => run.pc = "returned" /\ Output = <<>>
          /\ run.pc \in {"returned", "raised"} =>
                {uploads[k].item : k \in 1..Len(uploads)} = WellFormed
          /\ run.pc \notin {"upload", "raised"} =>
                \A i \in WellFormed :
                    \E k \in 1..Len(uploads) : uploads[k].item = i

\* The first item names a missing file, the second one was uploaded, polled
\* and returned.
C22_Witness ==
    /\ run.pc = "returned"
    /\ Len(self.videodata) = 2
    /\ self.videodata[1].kind = "file_missing"
    /\ OutputItems = {2}

\* C24: the stages of a run come one after the other: the index is resolved
\* once, before any upload; the uploads are made one at a time, for the
\* valid items in input order; and no polling call is submitted, so no
\* status check made, before an upload was attempted for every valid item.
C24_StagesAreOrdered ==
    [][/\ Len(resolutions') <= 1
       /\ uploads' # <<>> => Resolved'
       /\ uploads' # uploads =>
             /\ Len(uploads') = Len(uploads) + 1
             /\ SubSeq(uploads', 1, Len(uploads)) = uploads
             /\ resolutions' = resolutions
             /\ futures = <<>> /\ futures' = <<>>
             /\ \A k \in 1..Len(uploads) :
                   uploads[k].item < uploads'[Len(uploads')].item
       /\ futures' # <<>> =>
             /\ uploads' = uploads
             /\ {uploads[k].item : k \in 1..Len(uploads)} = WellFormed
             /\ \A k \in 1..Len(futures') :
                   \E m \in 1..Len(uploads) :
                       /\ uploads[m].ok
                       /\ uploads[m].item = futures'[k].item
                       /\ uploads[m].task_id = futures'[k].task_id]_vars

\* Both items were uploaded, in input order, and the first polling call is
\* running.
C24_Witness ==
    /\ Len(uploads) = 2
    /\ uploads[1].item < uploads[2].item
    /\ Len(futures) >= 1
    /\ futures[1].state = "running"

ReadyAtOnce == <<[nfail |-> 0, st |-> "ready"]>>

UploadedRun(n) ==
    [NewRun EXCEPT
        !.pc = "executor", !.index_id = 1, !.index_name = "a",
        !.valid_videos = [k \in 1..n |-> k],
        !.upload_tasks = [k \in 1..n |-> [item |-> k, task_id |-> k]]]

PoolInit ==
    \E n \in 1..MaxPoolJobs :
        /\ self = [videodata |-> [k \in 1..n |->
                                    [kind |-> "ok", metadata |-> NoMetadata]],
                   api_key |-> "k", index_name |-> "a", index_id |-> 0]
        /\ indexes = RemoteOf(<<"a">>)
        /\ resolutions = <<ResolutionLog(self, indexes,
                              [retrieve_ok |-> TRUE, list_ok |-> TRUE,
                               create_ok |-> TRUE])>>
        /\ run = UploadedRun(n)
        /\ futures = <<>>
        /\ uploads = [k \in 1..n |-> [item |-> k, ok |-> TRUE, task_id |-> k]]
        /\ status = [msg |-> "upload_complete", item |-> n]
        /\ job = IdleJob
        /\ seen = NothingSeen
        /\ split = IdleSplit

PoolNext ==
    \/ RunOpenExecutor
    \/ RunSubmit
    \/ \E k \in 1..Len(futures) : WorkerStart(k)
    \/ \E k \in 1..Len(futures) : WorkerFinish(k, ReadyAtOnce)
    \/ RunCollect

SpecPool == PoolInit /\ [][PoolNext]_vars

(***************************************************************************)
(* Claims about the polling stage (SpecPool)                                *)
(***************************************************************************)

\* C7: for any number N of submitted jobs, at every instant of every
\* interleaving at most min(10, N) calls of _wait_for_task_completion are
\* active (started and not yet ended); a job beyond that waits, pending,
\* while all workers are busy.
C7_AtMostTenActive ==
    run.pc \in {"submit", "collect", "returned"} =>
        /\ Cardinality(Running) <= Min(10, Len(run.upload_tasks))
        /\ Cardinality(Running) <= 10

\* Ten jobs active and the eleventh waiting.
C7_Witness ==
    /\ Len(run.upload_tasks) = 11
    /\ Cardinality(Running) = 10
    /\ Pending # {}

(***************************************************************************)
(* Two polling calls side by side: index_videos as it stands at line 248   *)
(* after two valid items were uploaded to index 1 "a", against a service   *)
(* that answers the status checks of each task by any script, in every     *)
(* interleaving of the two workers and the calling thread.                 *)
(***************************************************************************)
JobsInit ==
    /\ self = [videodata |-> [k \in 1..2 |->
                                [kind |-> "ok", metadata |-> NoMetadata]],
               api_key |-> "k", index_name |-> "a", index_id |-> 0]
    /\ indexes = RemoteOf(<<"a">>)
    /\ resolutions = <<ResolutionLog(self, indexes,
                          [retrieve_ok |-> TRUE, list_ok |-> TRUE,
                           create_ok |-> TRUE])>>
    /\ run = UploadedRun(2)
    /\ futures = <<>>
    /\ uploads = [k \in 1..2 |-> [item |-> k, ok |-> TRUE, task_id |-> k]]
    /\ status = [msg |-> "upload_complete", item |-> 2]
    /\ job = IdleJob
    /\ seen = NothingSeen
    /\ split = IdleSplit

JobsNext ==
    \/ RunOpenExecutor
    \/ RunSubmit
    \/ \E k \in 1..Len(futures) : WorkerStart(k)
    \/ \E k \in 1..Len(futures) :
          \E msg \in {"task_progress", "task_error"} : WorkerPoll(k, msg)
    \/ \E k \in 1..Len(futures) : \E s \in Scripts : WorkerFinish(k, s)
    \/ RunCollect

SpecJobs == JobsInit /\ [][JobsNext]_vars

(***************************************************************************)
(* Claims about concurrent polling calls (SpecJobs)                         *)
(***************************************************************************)
Done == {k \in 1..Len(futures) : futures[k].state = "done"}
Collected ==
    {k \in 1..Len(futures) :
        run.pc = "returned" \/ (run.pc = "collect" /\ k < run.n)}

LiveInit ==
    /\ self = [videodata |-> <<[kind |-> "ok", metadata |-> NoMetadata]>>,
               api_key |-> "k", index_name |-> "a", index_id |-> 0]
    /\ indexes = RemoteOf(<<"a">>)
    /\ resolutions = <<ResolutionLog(self, indexes,
                          [retrieve_ok |-> TRUE, list_ok |-> TRUE,
                           create_ok |-> TRUE])>>
    /\ run = UploadedRun(1)
    /\ futures = <<>>
    /\ uploads = <<[item |-> 1, ok |-> TRUE, task_id |-> 1]>>
    /\ status = [msg |-> "upload_complete", item |-> 1]
    /\ job = IdleJob
    /\ seen = NothingSeen
    /\ split = IdleSplit

\* The worker takes the pending call: _wait_for_task_completion starts
\* (lines 131-141).
CallStart(k) ==
    /\ futures[k].state = "pending"
    /\ \A m \in 1..(k - 1) : futures[m].state # "pending"
    /\ Cardinality(Running) < run.max_workers
    /\ futures' = [futures EXCEPT ![k].state = "running"]
    /\ job' = NewJob(futures[k].task_id)
    /\ seen' = NothingSeen
    /\ status' = [msg |-> "task_progress", item |-> futures[k].item]
    /\ UNCHANGED <<run, uploads, splitVars, indexVars>>

\* The call has returned or raised: its future is done.
CallEnd(k) ==
    /\ futures[k].state = "running"
    /\ job.state \in TerminalStates
    /\ job.task_id = futures[k].task_id
    /\ LET res == ResultOf(job) IN
       futures' = [futures EXCEPT ![k].state = "done",
                                  ![k].outcome = res.outcome,
                                  ![k].task = res.task,
                                  ![k].raised = res.raised]
    /\ UNCHANGED <<run, uploads, status, waitVars, splitVars, indexVars>>

LiveNext ==
    \/ RunOpenExecutor
    \/ RunSubmit
    \/ \E k \in 1..Len(futures) : CallStart(k)
    \/ WaitNext
    \/ \E k \in 1..Len(futures) : CallEnd(k)
    \/ RunCollect

SpecLive == LiveInit /\ [][LiveNext]_vars /\ WF_vars(LiveNext)

(***************************************************************************)
(* Claims about termination (SpecLive)                                      *)
(***************************************************************************)

\* C26: whatever the service answers, a polling call makes at most 120
\* iterations that obtain a non-terminal status and at most 5 that fail, and
\* at most one more; so every submitted call ends, and index_videos, once
\* the call is submitted, returns.
C26_EveryJobEndsAndTheRunReturns ==
    /\ [](/\ seen.polls <= max_retries
          /\ seen.call_fails + seen.bad <= max_consecutive_errors
          /\ seen.checks <= seen.polls + seen.call_fails + seen.bad + 1
          /\ (job.state = "POLLING" =>
                 /\ seen.polls < max_retries
                 /\ seen.call_fails + seen.bad < max_consecutive_errors
                 /\ seen.checks = seen.polls + seen.call_fails + seen.bad))
    /\ <>(run.pc = "returned" /\ \A k \in 1..Len(futures) : futures[k].state = "done")

\* The run returned after a call of 124 iterations: 119 non-terminal
\* statuses, 4 failures and a final ready.
C26_Witness ==
    /\ run.pc = "returned"
    /\ seen.polls = max_retries - 1
    /\ seen.call_fails + seen.bad = max_consecutive_errors - 1
    /\ seen.checks = max_retries + max_consecutive_errors - 1
    /\ job.state = "READY"
====
